---- MODULE Spec2Model ----
(***************************************************************************)
(* Model of the user CRUD service: Zod request schemas, the validate       *)
(* middleware, the user service (Prisma calls are the atomic steps between *)
(* awaits), the controllers and the error-handling middleware.             *)
(*                                                                         *)
(* JavaScript strings are sequences of one-character strings; JavaScript   *)
(* values are tagged records (Undefined, Null, Str(s)).                    *)
(***************************************************************************)
EXTENDS Integers, Sequences, FiniteSets, TLC

(***************************************************************************)
(* JavaScript values and string primitives                                 *)
(***************************************************************************)
Undefined == [t |-> "undefined"]
Null == [t |-> "null"]
Str(s) == [t |-> "string", v |-> s]
Num(n) == [t |-> "number", v |-> n]
IsStr(x) == x.t = "string"
IsNum(x) == x.t = "number"

\* JavaScript truthiness of undefined / null / string / number
Truthy(x) == (IsStr(x) /\ x.v # <<>>) \/ (IsNum(x) /\ x.v # 0)

UpperLetters == <<"A","B","C","D","E","F","G","H","I","J","K","L","M",
                  "N","O","P","Q","R","S","T","U","V","W","X","Y","Z">>
LowerLetters == <<"a","b","c","d","e","f","g","h","i","j","k","l","m",
                  "n","o","p","q","r","s","t","u","v","w","x","y","z">>
Digits == <<"0","1","2","3","4","5","6","7","8","9">>

SeqRange(q) == {q[i] : i \in 1..Len(q)}
IsLetter(c) == c \in SeqRange(UpperLetters) \cup SeqRange(LowerLetters)
IsDigit(c) == c \in SeqRange(Digits)
IsAlnum(c) == IsLetter(c) \/ IsDigit(c)
IsSpace(c) == c = " "

\* String.prototype.toLowerCase on one character
LowerChar(c) ==
  IF c \in SeqRange(UpperLetters)
    THEN LowerLetters[CHOOSE i \in 1..Len(UpperLetters) : UpperLetters[i] = c]
    ELSE c

\* String.prototype.toLowerCase
ToLowerCase(s) == [i \in 1..Len(s) |-> LowerChar(s[i])]

\* String.prototype.trim: drop leading and trailing white space
Trim(s) ==
  LET keep == {i \in 1..Len(s) : ~IsSpace(s[i])}
  IN IF keep = {} THEN <<>>
     ELSE LET lo == CHOOSE i \in keep : \A j \in keep : i <= j
              hi == CHOOSE i \in keep : \A j \in keep : j <= i
          IN SubSeq(s, lo, hi)

\* value of one decimal digit
DigitVal(c) == (CHOOSE i \in 1..Len(Digits) : Digits[i] = c) - 1

\* Number(s) for a string of decimal digits
RECURSIVE DigitsToNumber(_)
DigitsToNumber(s) ==
  IF s = <<>> THEN 0
  ELSE 10 * DigitsToNumber(SubSeq(s, 1, Len(s) - 1)) + DigitVal(s[Len(s)])

\* /^\d+$/.test(s)
MatchesDigits(s) == Len(s) >= 1 /\ \A i \in 1..Len(s) : IsDigit(s[i])

(***************************************************************************)
(* Zod primitives used by the schemas                                      *)
(***************************************************************************)
\* z.string().email(): Zod's email pattern, case-insensitive,
\*   local part  [A-Z0-9_'+-.]*[A-Z0-9_+-]  not starting with "." and no "..",
\*   domain      ([A-Z0-9][A-Z0-9-]*\.)+[A-Z]{2,}
IsEmail(s) ==
  LET ats == {i \in 1..Len(s) : s[i] = "@"}
  IN /\ Cardinality(ats) = 1
     /\ LET at == CHOOSE i \in ats : TRUE
            local == SubSeq(s, 1, at - 1)
            domain == SubSeq(s, at + 1, Len(s))
            dots == {i \in 1..Len(domain) : domain[i] = "."}
        IN /\ Len(local) >= 1
           /\ \A i \in 1..Len(local) :
                IsAlnum(local[i]) \/ local[i] \in {"_", "'", "+", "-", "."}
           /\ local[1] # "."
           /\ IsAlnum(local[Len(local)]) \/ local[Len(local)] \in {"_", "+", "-"}
           /\ \A i \in 1..(Len(local) - 1) : ~(local[i] = "." /\ local[i + 1] = ".")
           /\ dots # {}
           /\ LET last == CHOOSE i \in dots : \A j \in dots : j <= i
              IN /\ Len(domain) - last >= 2
                 /\ \A i \in (last + 1)..Len(domain) : IsLetter(domain[i])
                 /\ \A i \in 1..last :
                      IF i = 1 \/ domain[i - 1] = "."
                        THEN IsAlnum(domain[i])
                        ELSE IsAlnum(domain[i]) \/ domain[i] \in {"-", "."}

\* z.string().url(): new URL(s) does not throw.  A scheme (a letter, then
\* letters, digits, "+", "-", ".") followed by ":"; the special schemes need a
\* non-empty host after the slashes; no white space anywhere.
SpecialSchemes ==
  { <<"h","t","t","p">>, <<"h","t","t","p","s">>, <<"f","t","p">>,
    <<"w","s">>, <<"w","s","s">> }

RECURSIVE DropSlashes(_)
DropSlashes(s) ==
  IF s # <<>> /\ s[1] \in {"/", "\\"} THEN DropSlashes(Tail(s)) ELSE s

IsUrl(s) ==
  LET colons == {i \in 1..Len(s) : s[i] = ":"}
  IN /\ colons # {}
     /\ \A i \in 1..Len(s) : ~IsSpace(s[i])
     /\ LET c == CHOOSE i \in colons : \A j \in colons : i <= j
            scheme == SubSeq(s, 1, c - 1)
            rest == SubSeq(s, c + 1, Len(s))
        IN /\ Len(scheme) >= 1
           /\ IsLetter(scheme[1])
           /\ \A i \in 1..Len(scheme) :
                IsAlnum(scheme[i]) \/ scheme[i] \in {"+", "-", "."}
           /\ ToLowerCase(scheme) \in SpecialSchemes => DropSlashes(rest) # <<>>

\* one Zod issue
Issue(path, message, code) == [path |-> path, message |-> message, code |-> code]

\* result of parsing one value: status is "valid", "dirty" (issues, parsing
\* went on) or "aborted" (INVALID)
Parsed(status, issues, value) == [status |-> status, issues |-> issues, value |-> value]

MinNome == 3
MaxNome == 100
MinSenha == 6
MaxSenha == 100
Papeis == {<<"P","R","O","F","E","S","S","O","R">>, <<"A","D","M","I","N">>}
PROFESSOR == Str(<<"P","R","O","F","E","S","S","O","R">>)

\* nome with the trim left out of the chain
NomeChecksNoTrim(s) ==
  LET issues == IF Len(s) < MinNome \/ Len(s) > MaxNome
                  THEN <<Issue("nome", "Nome invalido", "too_small")>>
                  ELSE <<>>
  IN Parsed(IF issues = <<>> THEN "valid" ELSE "dirty", issues, Str(s))

\* the checks of a ZodString run in the order they were chained, each on the
\* value the previous ones left.
\* nome: z.string().min(3).max(100).trim()
NomeChecks(s) ==
  LET small == IF Len(s) < MinNome
                 THEN <<Issue("nome", "Nome deve ter pelo menos 3 caracteres", "too_small")>>
                 ELSE <<>>
      big == IF Len(s) > MaxNome
               THEN <<Issue("nome", "Nome deve ter no maximo 100 caracteres", "too_big")>>
               ELSE <<>>
      issues == small \o big
  IN Parsed(IF issues = <<>> THEN "valid" ELSE "dirty", issues, Str(Trim(s)))

\* email: z.string().email().toLowerCase().trim()
EmailChecks(s) ==
  LET issues == IF IsEmail(s) THEN <<>>
                ELSE <<Issue("email", "Email invalido", "invalid_string")>>
  IN Parsed(IF issues = <<>> THEN "valid" ELSE "dirty", issues,
            Str(Trim(ToLowerCase(s))))

\* senha: z.string().min(6).max(100)
SenhaChecks(s) ==
  LET small == IF Len(s) < MinSenha
                 THEN <<Issue("senha", "Senha deve ter pelo menos 6 caracteres", "too_small")>>
                 ELSE <<>>
      big == IF Len(s) > MaxSenha
               THEN <<Issue("senha", "Senha deve ter no maximo 100 caracteres", "too_big")>>
               ELSE <<>>
      issues == small \o big
  IN Parsed(IF issues = <<>> THEN "valid" ELSE "dirty", issues, Str(s))

\* papel: z.enum(['PROFESSOR','ADMIN']) under .optional(): undefined passes
\* through as undefined (the inner .default() of the create schema is never
\* reached, .optional() answers first)
PapelParse(x) ==
  IF x = Undefined THEN Parsed("valid", <<>>, Undefined)
  ELSE IF IsStr(x) /\ x.v \in Papeis THEN Parsed("valid", <<>>, x)
  ELSE Parsed("aborted",
              <<Issue("papel", "Papel deve ser PROFESSOR ou ADMIN", "invalid_enum_value")>>,
              x)

\* foto: z.string().url().optional().nullable().transform(val => val || null)
\* the transform runs only on a value the inner schema accepted
FotoParse(x) ==
  IF x = Undefined \/ x = Null THEN Parsed("valid", <<>>, Null)
  ELSE IF ~IsUrl(x.v)
    THEN Parsed("dirty", <<Issue("foto", "URL da foto invalida", "invalid_string")>>, x)
  ELSE Parsed("valid", <<>>, IF Truthy(x) THEN x ELSE Null)

\* a required string field of the create schema
RequiredNome(x) ==
  IF x = Undefined THEN Parsed("aborted", <<Issue("nome", "Nome e obrigatorio", "invalid_type")>>, x)
  ELSE IF ~IsStr(x) THEN Parsed("aborted", <<Issue("nome", "Nome deve ser um texto", "invalid_type")>>, x)
  ELSE NomeChecks(x.v)

RequiredEmail(x) ==
  IF x = Undefined THEN Parsed("aborted", <<Issue("email", "Email e obrigatorio", "invalid_type")>>, x)
  ELSE IF ~IsStr(x) THEN Parsed("aborted", <<Issue("email", "Email deve ser um texto", "invalid_type")>>, x)
  ELSE EmailChecks(x.v)

RequiredSenha(x) ==
  IF x = Undefined THEN Parsed("aborted", <<Issue("senha", "Senha e obrigatoria", "invalid_type")>>, x)
  ELSE IF ~IsStr(x) THEN Parsed("aborted", <<Issue("senha", "Senha deve ser um texto", "invalid_type")>>, x)
  ELSE SenhaChecks(x.v)

\* an optional string field of the update schema
OptionalNome(x) ==
  IF x = Undefined THEN Parsed("valid", <<>>, Undefined)
  ELSE IF ~IsStr(x) THEN Parsed("aborted", <<Issue("nome", "Nome deve ser um texto", "invalid_type")>>, x)
  ELSE NomeChecks(x.v)

OptionalEmail(x) ==
  IF x = Undefined THEN Parsed("valid", <<>>, Undefined)
  ELSE IF ~IsStr(x) THEN Parsed("aborted", <<Issue("email", "Email deve ser um texto", "invalid_type")>>, x)
  ELSE EmailChecks(x.v)

OptionalSenha(x) ==
  IF x = Undefined THEN Parsed("valid", <<>>, Undefined)
  ELSE IF ~IsStr(x) THEN Parsed("aborted", <<Issue("senha", "Senha deve ser um texto", "invalid_type")>>, x)
  ELSE SenhaChecks(x.v)

\* z.object: every key of the shape is parsed, in shape order, and the issues
\* of all of them are collected
Fields == <<"nome", "email", "senha", "papel", "foto">>

ObjectParse(f) ==
  LET issues == f.nome.issues \o f.email.issues \o f.senha.issues
                  \o f.papel.issues \o f.foto.issues
      sts == {f[k].status : k \in SeqRange(Fields)}
  IN Parsed(IF "aborted" \in sts THEN "aborted"
            ELSE IF "dirty" \in sts THEN "dirty" ELSE "valid",
            issues,
            [k \in SeqRange(Fields) |-> f[k].value])

\* createUserSchema
createUserSchema(body) ==
  ObjectParse([nome |-> RequiredNome(body.nome),
               email |-> RequiredEmail(body.email),
               senha |-> RequiredSenha(body.senha),
               papel |-> PapelParse(body.papel),
               foto |-> FotoParse(body.foto)])

\* an update schema without its refinement
NoRefinement(data) == TRUE

\* the .refine of updateUserSchema:
\* Object.values(data).some(v => v !== undefined && v !== null)
SomeFieldGiven(data) ==
  \E k \in SeqRange(Fields) : data[k] # Undefined /\ data[k] # Null

\* updateUserSchema: the object, then the refinement unless the object aborted
updateUserSchema(body) ==
  LET inner == ObjectParse([nome |-> OptionalNome(body.nome),
                            email |-> OptionalEmail(body.email),
                            senha |-> OptionalSenha(body.senha),
                            papel |-> PapelParse(body.papel),
                            foto |-> FotoParse(body.foto)])
  IN IF inner.status = "aborted" THEN inner
     ELSE IF SomeFieldGiven(inner.value) THEN inner
     ELSE Parsed("dirty",
                 inner.issues \o
                   <<Issue("", "Pelo menos um campo deve ser fornecido para atualizacao", "custom")>>,
                 inner.value)

\* the comparison  val > 0  of the refinement.  On a string the digit pattern
\* accepted val is Number(s); on a rejected one the transform did not run and
\* val is the string itself, which JavaScript converts with Number() (white
\* space around digits is dropped, anything else is NaN and compares false)
GreaterThanZero(s) ==
  LET t == Trim(s) IN MatchesDigits(t) /\ DigitsToNumber(t) > 0

\* idParamSchema: z.string().regex(/^\d+$/).transform(Number).refine(val => val > 0)
idParamSchema(params) ==
  LET s == params.id.v
      pattern == IF MatchesDigits(s) THEN <<>>
                 ELSE <<Issue("id", "ID deve ser um numero", "invalid_string")>>
      positive == IF GreaterThanZero(s) THEN <<>>
                  ELSE <<Issue("id", "ID deve ser um numero positivo", "custom")>>
      issues == pattern \o positive
  IN Parsed(IF issues = <<>> THEN "valid" ELSE "dirty", issues,
            [id |-> IF issues = <<>> THEN DigitsToNumber(s) ELSE params.id])

(***************************************************************************)
(* Error taxonomy (AppError.js) and driver errors                          *)
(***************************************************************************)
AppError(message, statusCode, code, details) ==
  [kind |-> "AppError", isOperational |-> TRUE, message |-> message,
   statusCode |-> statusCode, code |-> code, details |-> details]

ValidationError(message, details) == AppError(message, 400, "VALIDATION_ERROR", details)
NotFoundError(message, resource) ==
  AppError(message, 404, "NOT_FOUND", <<[resource |-> resource]>>)
ConflictError(message, field) ==
  AppError(message, 409, "CONFLICT", <<[field |-> field]>>)
UnauthorizedError(message) == AppError(message, 401, "UNAUTHORIZED", <<>>)
ForbiddenError(message) == AppError(message, 403, "FORBIDDEN", <<>>)

\* any other error object: its class, and the properties errorHandler reads
JsError(kind, name, code, message, meta, errors) ==
  [kind |-> kind, name |-> name, code |-> code, message |-> message,
   meta |-> meta, errors |-> errors, stack |-> <<"stack of ", name>>]

P2002 == <<"P","2","0","0","2">>
P2025 == <<"P","2","0","2","5">>
P2003 == <<"P","2","0","0","3">>

\* an error thrown by the Prisma client: it carries a driver code
PrismaError(code, meta) ==
  JsError("PrismaClientKnownRequestError", "PrismaClientKnownRequestError",
          Str(code), <<"prisma", code>>, meta, <<>>)

\* the error z.parse throws
ZodError(issues) ==
  JsError("ZodError", "ZodError", Undefined, <<"zod">>, Undefined, issues)

(***************************************************************************)
(* errorHandler.js                                                         *)
(***************************************************************************)
Sent(status, body) == [status |-> status, body |-> body]

\* new Date().toISOString()
Timestamp == <<"ISO-8601">>

\* the error envelope every branch writes
Envelope(err, path) ==
  [success |-> FALSE, error |-> err, timestamp |-> Timestamp, path |-> path]

\* the middleware threw instead of answering: Express hands the exception to
\* its own final handler, which writes a 500 that is not the JSON envelope
Threw(exception) == [status |-> 500, threw |-> exception]

\* String.prototype.startsWith
StartsWith(s, prefix) ==
  Len(s) >= Len(prefix) /\ SubSeq(s, 1, Len(prefix)) = prefix

\* the driver-error table without its P2002 entry
handlePrismaErrorNoP2002(error, env, path) ==
  Sent(500, Envelope([code |-> "DATABASE_ERROR", message |-> <<"Erro no banco de dados.">>],
                     path))

\* the driver-error table without its P2025 entry
handlePrismaErrorNoP2025(error, env, path) ==
  IF error.code = Str(P2002)
    THEN Sent(409, Envelope([code |-> "CONFLICT",
                             message |-> <<"Registro duplicado. Este valor ja existe no sistema.">>],
                            path))
    ELSE Sent(500, Envelope([code |-> "DATABASE_ERROR",
                             message |-> <<"Erro no banco de dados.">>], path))

\* a driver branch that adds the driver's code and metadata in every mode
handlePrismaErrorVerbose(error, env, path) ==
  Sent(500, Envelope([code |-> "DATABASE_ERROR", message |-> <<"Erro no banco de dados.">>,
                      prismaCode |-> error.code, details |-> error.meta], path))

handlePrismaError(error, env, path) ==
  LET mappedError ==
        CASE error.code = Str(P2002) ->
               [status |-> 409, code |-> "CONFLICT",
                message |-> <<"Registro duplicado. Este valor ja existe no sistema.">>]
          [] error.code = Str(P2025) ->
               [status |-> 404, code |-> "NOT_FOUND",
                message |-> <<"Registro nao encontrado.">>]
          [] error.code = Str(P2003) ->
               [status |-> 400, code |-> "INVALID_REFERENCE",
                message |-> <<"Referencia invalida a outro registro.">>]
          [] OTHER ->
               [status |-> 500, code |-> "DATABASE_ERROR",
                message |-> <<"Erro no banco de dados.">>]
      err == IF env = "development"
               THEN [code |-> mappedError.code, message |-> mappedError.message,
                     prismaCode |-> error.code, details |-> error.meta]
               ELSE [code |-> mappedError.code, message |-> mappedError.message]
  IN Sent(mappedError.status, Envelope(err, path))

handleZodError(error, path) ==
  LET details == [i \in 1..Len(error.errors) |->
                    [field |-> error.errors[i].path, message |-> error.errors[i].message]]
  IN Sent(400, Envelope([code |-> "VALIDATION_ERROR",
                         message |-> <<"Dados de entrada invalidos">>,
                         details |-> details], path))

\* an error middleware that never passes details on
errorHandlerWithoutDetails(error, env, path) ==
  Sent(IF error.kind = "AppError" THEN error.statusCode ELSE 500,
       Envelope([code |-> "INTERNAL_ERROR", message |-> <<"Erro interno do servidor">>], path))

\* the first three branches test, in this order: instanceof AppError with
\* isOperational; error.code && error.code.startsWith('P'), where a truthy
\* code that is not a string has no startsWith and the call throws a
\* TypeError; error.name === 'ZodError'
errorHandler(error, env, path) ==
  IF error.kind = "AppError" /\ error.isOperational
    THEN Sent(error.statusCode,
              Envelope([code |-> error.code, message |-> error.message,
                        details |-> error.details], path))
  ELSE IF Truthy(error.code) /\ ~IsStr(error.code)
    THEN Threw(<<"TypeError: error.code.startsWith is not a function">>)
  ELSE IF Truthy(error.code) /\ StartsWith(error.code.v, <<"P">>)
    THEN handlePrismaError(error, env, path)
  ELSE IF error.name = "ZodError"
    THEN handleZodError(error, path)
  ELSE Sent(500,
            Envelope(IF env = "development"
                       THEN [code |-> "INTERNAL_ERROR", message |-> error.message,
                             stack |-> error.stack]
                       ELSE [code |-> "INTERNAL_ERROR",
                             message |-> <<"Erro interno do servidor">>],
                     path))

(***************************************************************************)
(* validate.js                                                             *)
(***************************************************************************)
\* a validate that reports the first issue only
DetailsFirstOnly(issues) ==
  [i \in 1..1 |->
     [field |-> issues[i].path, message |-> issues[i].message, code |-> issues[i].code]]

\* the details validate builds from the Zod issues
Details(issues) ==
  [i \in 1..Len(issues) |->
     [field |-> issues[i].path, message |-> issues[i].message, code |-> issues[i].code]]

\* validate(schema, source): the error passed to next(), or Null when the
\* parsed data replaced req[source]
validateError(result) ==
  IF result.issues # <<>>
    THEN ValidationError(<<"Dados de entrada invalidos">>, Details(result.issues))
    ELSE Null

(***************************************************************************)
(* State                                                                   *)
(***************************************************************************)
MaxId == 2          \* ids the database hands out: 1..MaxId
NReq == 2           \* requests in flight at the same time

Ids == 1..MaxId
Reqs == 1..NReq

VARIABLES
  db,       \* table User: id -> row, or NoRow
  nextId,   \* the autoincrement counter of User.id
  nodeEnv,  \* process.env.NODE_ENV
  pc,       \* per request: where its handler is suspended
  sent,     \* per request: what the client sent (route, params, body)
  req,      \* per request: Express' req.params / req.body, rewritten by validate
  found,    \* per request: usuarioExistente, the row the service read
  resp,     \* per request: the response written to res
  thrown,   \* per request: the errors handed to next(error), in order
  sends     \* per request: how many times a response was written

vars == <<db, nextId, nodeEnv, pc, sent, req, found, resp, thrown, sends>>

\* what only answering touches besides pc
answer == <<resp, thrown, sends>>

NoRow == [t |-> "norow"]
NoRequest == [route |-> "none"]
NoResponse == [status |-> 0]
NoReq == [params |-> Undefined, body |-> Undefined]

Body(nome, email, senha, papel, foto) ==
  [nome |-> nome, email |-> email, senha |-> senha, papel |-> papel, foto |-> foto]

Users == {i \in Ids : db[i] # NoRow}

(***************************************************************************)
(* The Prisma client: every call is one atomic database operation          *)
(***************************************************************************)
Select(row, keys) == [k \in keys |-> row[k]]

\* prisma.user.findUnique({ where: { id } })
findUniqueById(id) == IF id \in Users THEN db[id] ELSE Null

\* prisma.user.findUnique({ where: { email } })
findUniqueByEmail(email) ==
  IF \E i \in Users : db[i].email = email
    THEN db[CHOOSE i \in Users : db[i].email = email]
    ELSE Null

\* a table without the unique index
NoUniqueIndex(email, self) == FALSE

\* the unique index on User.email: a write that would give a second row the
\* same email is refused by the database (driver code P2002)
UniqueEmailViolated(email, self) ==
  \E i \in Users : i # self /\ db[i].email = email

\* rows ordered by createdAt, newest first
RECURSIVE OrderByCreatedAtDesc(_)
OrderByCreatedAtDesc(rows) ==
  IF rows = {} THEN <<>>
  ELSE LET newest == CHOOSE x \in rows : \A y \in rows : y.createdAt <= x.createdAt
       IN <<newest>> \o OrderByCreatedAtDesc(rows \ {newest})

\* a select that forgets to leave the password out
PublicKeysWithSenha == {"id", "nome", "email", "senha", "papel", "foto", "createdAt"}

PublicKeys == {"id", "nome", "email", "papel", "foto", "createdAt"}

(***************************************************************************)
(* Responses                                                               *)
(***************************************************************************)
\* a response is written: the request ends
Respond(r, response) ==
  /\ pc' = [pc EXCEPT ![r] = "done"]
  /\ resp' = [resp EXCEPT ![r] = response]
  /\ sends' = [sends EXCEPT ![r] = @ + 1]

\* the controller's res.status(..).json(..)
Reply(r, response) == Respond(r, response) /\ UNCHANGED thrown

\* a next(error) after which nobody answers
FailUnanswered(r, error, path) ==
  /\ thrown' = [thrown EXCEPT ![r] = Append(@, error)]
  /\ pc' = [pc EXCEPT ![r] = "done"]
  /\ UNCHANGED <<resp, sends>>

\* next(error): the error middleware answers
Fail(r, error, path) ==
  /\ thrown' = [thrown EXCEPT ![r] = Append(@, error)]
  /\ Respond(r, errorHandler(error, nodeEnv, path))

\* the id check every service function repeats:
\* !userId || isNaN(userId) || userId <= 0
InvalidId(userId) == userId = 0 \/ userId <= 0

InvalidIdError == ValidationError(<<"ID invalido. Deve ser um numero positivo">>, <<>>)

\* a missing row reported with the wrong error class
UserNotFoundAsValidation(userId) ==
  ValidationError(<<"Usuario com ID ", userId, " nao encontrado">>, <<>>)

UserNotFound(userId) ==
  NotFoundError(<<"Usuario com ID ", userId, " nao encontrado">>, "User")

\* creates that passed validation and have not inserted yet
PendingCreates ==
  Cardinality({q \in Reqs : sent[q].route = "POST" /\ pc[q] \in {"check", "write"}})

(***************************************************************************)
(* Routes: validate middlewares, controller, and the service up to its     *)
(* first await.  None of this touches the database.                        *)
(***************************************************************************)
Receive(r, route, path, params, body) ==
  /\ pc[r] = "idle"
  /\ sent' = [sent EXCEPT ![r] =
                [route |-> route, path |-> path, params |-> params, body |-> body]]

\* router.post('/', validate(createUserSchema, 'body'), userController.create)
create(r, body) ==
  /\ nextId + PendingCreates <= MaxId
  /\ Receive(r, "POST", <<"/users">>, Undefined, body)
  /\ LET result == createUserSchema(body)
         error == validateError(result)
     IN IF error # Null
          THEN /\ req' = [req EXCEPT ![r] = [params |-> Undefined, body |-> body]]
               /\ Fail(r, error, <<"/users">>)
          ELSE /\ req' = [req EXCEPT ![r] = [params |-> Undefined, body |-> result.value]]
               /\ pc' = [pc EXCEPT ![r] = "check"]
               /\ UNCHANGED answer
  /\ UNCHANGED <<db, nextId, nodeEnv, found>>

\* router.get('/', userController.getAll)
getAll(r) ==
  /\ Receive(r, "LIST", <<"/users">>, Undefined, Undefined)
  /\ req' = [req EXCEPT ![r] = NoReq]
  /\ pc' = [pc EXCEPT ![r] = "list"]
  /\ UNCHANGED <<db, nextId, nodeEnv, found, answer>>

\* the id check at the top of getUserById / updateUser / deleteUser
ServiceIdError(userId) == IF InvalidId(userId) THEN InvalidIdError ELSE Null

\* a /:id route: validate(idParamSchema, 'params'), then the body validation of
\* the route (bodyError is its error or Null, data what it leaves in req.body),
\* then the controller, which calls the service
IdRoute(r, route, id, body, bodyError, data) ==
  /\ Receive(r, route, <<"/users", id>>, [id |-> id], body)
  /\ LET result == idParamSchema([id |-> id])
         error == validateError(result)
     IN IF error # Null
          THEN /\ req' = [req EXCEPT ![r] = [params |-> [id |-> id], body |-> body]]
               /\ Fail(r, error, <<"/users", id>>)
          ELSE IF bodyError # Null
            THEN /\ req' = [req EXCEPT ![r] = [params |-> result.value, body |-> body]]
                 /\ Fail(r, bodyError, <<"/users", id>>)
          ELSE IF ServiceIdError(result.value.id) # Null
            THEN /\ req' = [req EXCEPT ![r] = [params |-> result.value, body |-> data]]
                 /\ Fail(r, ServiceIdError(result.value.id), <<"/users", id>>)
          ELSE /\ req' = [req EXCEPT ![r] = [params |-> result.value, body |-> data]]
               /\ pc' = [pc EXCEPT ![r] = "find"]
               /\ UNCHANGED answer
  /\ UNCHANGED <<db, nextId, nodeEnv, found>>

\* router.get('/:id', validate(idParamSchema, 'params'), userController.getById)
getById(r, id) == IdRoute(r, "GET", id, Undefined, Null, Undefined)

\* router.put('/:id', validate(idParamSchema, 'params'),
\*            validate(updateUserSchema, 'body'), userController.update)
update(r, id, body) ==
  LET result == updateUserSchema(body)
  IN IdRoute(r, "PUT", id, body, validateError(result), result.value)

\* router.delete('/:id', validate(idParamSchema, 'params'), userController.remove)
remove(r, id) == IdRoute(r, "DELETE", id, Undefined, Null, Undefined)

(***************************************************************************)
(* userService.js: one action per awaited Prisma call, together with the   *)
(* code that follows it up to the next await or the response               *)
(***************************************************************************)
At(r, route, where) == sent[r].route = route /\ pc[r] = where

\* getAllUsers: findMany, then the controller's 200
GetAllUsersFindMany(r) ==
  /\ At(r, "LIST", "list")
  /\ LET rows == OrderByCreatedAtDesc({db[i] : i \in Users})
         usuarios == [i \in 1..Len(rows) |-> Select(rows[i], PublicKeys)]
     IN Reply(r, Sent(200, [success |-> TRUE, data |-> usuarios, total |-> Len(usuarios)]))
  /\ UNCHANGED <<db, nextId, nodeEnv, sent, req, found>>

\* getUserById: findUnique, NotFoundError or the controller's 200
GetUserByIdFindUnique(r) ==
  /\ At(r, "GET", "find")
  /\ LET userId == req[r].params.id
         usuario == findUniqueById(userId)
     IN IF usuario = Null
          THEN Fail(r, UserNotFound(userId), sent[r].path)
          ELSE Reply(r, Sent(200, [success |-> TRUE, data |-> Select(usuario, PublicKeys)]))
  /\ UNCHANGED <<db, nextId, nodeEnv, sent, req, found>>

\* createUser: emailExists, ConflictError or on to the insert
CreateUserEmailExists(r) ==
  /\ At(r, "POST", "check")
  /\ IF findUniqueByEmail(req[r].body.email) # Null
       THEN Fail(r, ConflictError(<<"Email ja cadastrado no sistema">>, "email"), sent[r].path)
       ELSE pc' = [pc EXCEPT ![r] = "write"] /\ UNCHANGED answer
  /\ UNCHANGED <<db, nextId, nodeEnv, sent, req, found>>

\* the record createUser hands to prisma.user.create
dadosUsuario(userData) ==
  [nome |-> userData.nome,
   email |-> userData.email,
   senha |-> userData.senha,
   papel |-> IF Truthy(userData.papel) THEN userData.papel ELSE PROFESSOR,
   foto |-> IF Truthy(userData.foto) THEN userData.foto ELSE Null]

\* createUser: prisma.user.create, then the controller's 201; a duplicate
\* email makes the driver throw P2002, which goes to the error middleware
CreateUserInsert(r) ==
  /\ At(r, "POST", "write")
  /\ LET dados == dadosUsuario(req[r].body)
         row == [id |-> nextId, nome |-> dados.nome, email |-> dados.email,
                 senha |-> dados.senha, papel |-> dados.papel, foto |-> dados.foto,
                 createdAt |-> nextId]
     IN IF UniqueEmailViolated(dados.email, 0)
          THEN /\ Fail(r, PrismaError(P2002, [target |-> <<"email">>]), sent[r].path)
               /\ UNCHANGED <<db, nextId>>
          ELSE /\ db' = [db EXCEPT ![nextId] = row]
               /\ nextId' = nextId + 1
               /\ Reply(r, Sent(201, [success |-> TRUE,
                                      message |-> <<"Usuario criado com sucesso">>,
                                      data |-> Select(row, PublicKeys)]))
  /\ UNCHANGED <<nodeEnv, sent, req, found>>

\* updateUser: findUnique by id, NotFoundError, or on to the email check (when
\* an email is given and differs from the stored one) or to the write
UpdateUserFindUnique(r) ==
  /\ At(r, "PUT", "find")
  /\ LET userId == req[r].params.id
         userData == req[r].body
         usuarioExistente == findUniqueById(userId)
     IN IF usuarioExistente = Null
          THEN Fail(r, UserNotFound(userId), sent[r].path) /\ UNCHANGED found
          ELSE /\ found' = [found EXCEPT ![r] = usuarioExistente]
               /\ pc' = [pc EXCEPT ![r] =
                           IF Truthy(userData.email) /\ userData.email # usuarioExistente.email
                             THEN "check" ELSE "write"]
               /\ UNCHANGED answer
  /\ UNCHANGED <<db, nextId, nodeEnv, sent, req>>

\* an update that never finds its new email taken
UpdateUserEmailNeverTaken(r) ==
  /\ At(r, "PUT", "check")
  /\ pc' = [pc EXCEPT ![r] = "write"]
  /\ UNCHANGED <<db, nextId, nodeEnv, sent, req, found, answer>>

\* updateUser: emailExists, ConflictError or on to the write
UpdateUserEmailExists(r) ==
  /\ At(r, "PUT", "check")
  /\ IF findUniqueByEmail(req[r].body.email) # Null
       THEN Fail(r, ConflictError(<<"Email ja esta em uso por outro usuario">>, "email"),
                 sent[r].path)
       ELSE pc' = [pc EXCEPT ![r] = "write"] /\ UNCHANGED answer
  /\ UNCHANGED <<db, nextId, nodeEnv, sent, req, found>>

\* the fields updateUser hands to prisma.user.update
dadosAtualizacao(userData) ==
  LET keys == {k \in {"nome", "email", "senha", "papel"} : Truthy(userData[k])}
                \cup {k \in {"foto"} : userData[k] # Undefined}
  IN [k \in keys |-> userData[k]]

\* the row after prisma.user.update({ data })
Patched(row, data) ==
  [k \in DOMAIN row |-> IF k \in DOMAIN data THEN data[k] ELSE row[k]]

\* an update that is not atomic: the patch is stored before the unique index
\* is consulted
UpdateUserWriteThenCheck(r) ==
  /\ At(r, "PUT", "write")
  /\ LET userId == req[r].params.id
         data == dadosAtualizacao(req[r].body)
     IN IF userId \notin Users
          THEN /\ Fail(r, PrismaError(P2025, [cause |-> <<"Record to update not found.">>]),
                       sent[r].path)
               /\ UNCHANGED db
        ELSE /\ db' = [db EXCEPT ![userId] = Patched(db[userId], data)]
             /\ IF "email" \in DOMAIN data /\ UniqueEmailViolated(data.email, userId)
                  THEN Fail(r, PrismaError(P2002, [target |-> <<"email">>]), sent[r].path)
                  ELSE Reply(r, Sent(200, [success |-> TRUE,
                                           message |-> <<"Usuario atualizado com sucesso">>,
                                           data |-> Select(db'[userId], PublicKeys)]))
  /\ UNCHANGED <<nextId, nodeEnv, sent, req, found>>

\* updateUser: prisma.user.update, then the controller's 200; the driver throws
\* P2025 when the row is gone and P2002 when the new email is taken
UpdateUserWrite(r) ==
  /\ At(r, "PUT", "write")
  /\ LET userId == req[r].params.id
         data == dadosAtualizacao(req[r].body)
     IN IF userId \notin Users
          THEN /\ Fail(r, PrismaError(P2025, [cause |-> <<"Record to update not found.">>]),
                       sent[r].path)
               /\ UNCHANGED db
        ELSE IF "email" \in DOMAIN data /\ UniqueEmailViolated(data.email, userId)
          THEN /\ Fail(r, PrismaError(P2002, [target |-> <<"email">>]), sent[r].path)
               /\ UNCHANGED db
        ELSE /\ db' = [db EXCEPT ![userId] = Patched(db[userId], data)]
             /\ Reply(r, Sent(200, [success |-> TRUE,
                                    message |-> <<"Usuario atualizado com sucesso">>,
                                    data |-> Select(db'[userId], PublicKeys)]))
  /\ UNCHANGED <<nextId, nodeEnv, sent, req, found>>

\* deleteUser: findUnique by id (id, nome, email), NotFoundError or on
DeleteUserFindUnique(r) ==
  /\ At(r, "DELETE", "find")
  /\ LET userId == req[r].params.id
         usuarioExistente == findUniqueById(userId)
     IN IF usuarioExistente = Null
          THEN Fail(r, UserNotFound(userId), sent[r].path) /\ UNCHANGED found
          ELSE /\ found' = [found EXCEPT ![r] =
                              Select(usuarioExistente, {"id", "nome", "email"})]
               /\ pc' = [pc EXCEPT ![r] = "write"]
               /\ UNCHANGED answer
  /\ UNCHANGED <<db, nextId, nodeEnv, sent, req>>

\* a delete that answers 200 and leaves the row where it is
DeleteUserKeepsRow(r) ==
  /\ At(r, "DELETE", "write")
  /\ Reply(r, Sent(200, [success |-> TRUE,
                         message |-> <<"Usuario removido com sucesso">>,
                         data |-> found[r]]))
  /\ UNCHANGED <<db, nextId, nodeEnv, sent, req, found>>

\* deleteUser: prisma.user.delete, then the controller's 200 with the row read
\* before; the driver throws P2025 when the row is gone
DeleteUserDelete(r) ==
  /\ At(r, "DELETE", "write")
  /\ LET userId == req[r].params.id
     IN IF userId \notin Users
          THEN /\ Fail(r, PrismaError(P2025, [cause |-> <<"Record to delete does not exist.">>]),
                       sent[r].path)
               /\ UNCHANGED db
          ELSE /\ db' = [db EXCEPT ![userId] = NoRow]
               /\ Reply(r, Sent(200, [success |-> TRUE,
                                      message |-> <<"Usuario removido com sucesso">>,
                                      data |-> found[r]]))
  /\ UNCHANGED <<nextId, nodeEnv, sent, req, found>>

\* the response has gone out: the request's objects are dropped
Close(r) ==
  /\ pc[r] = "done"
  /\ pc' = [pc EXCEPT ![r] = "idle"]
  /\ sent' = [sent EXCEPT ![r] = NoRequest]
  /\ req' = [req EXCEPT ![r] = NoReq]
  /\ found' = [found EXCEPT ![r] = Null]
  /\ resp' = [resp EXCEPT ![r] = NoResponse]
  /\ thrown' = [thrown EXCEPT ![r] = <<>>]
  /\ sends' = [sends EXCEPT ![r] = 0]
  /\ UNCHANGED <<db, nextId, nodeEnv>>

\* the steps of the service, the same in every specification
Service(r) ==
  \/ GetAllUsersFindMany(r)
  \/ GetUserByIdFindUnique(r)
  \/ CreateUserEmailExists(r)
  \/ CreateUserInsert(r)
  \/ UpdateUserFindUnique(r)
  \/ UpdateUserEmailExists(r)
  \/ UpdateUserWrite(r)
  \/ DeleteUserFindUnique(r)
  \/ DeleteUserDelete(r)

NodeEnvs == {"development", "production"}

\* a fresh server on an empty database
InitIn(envs) ==
  /\ db = [i \in Ids |-> NoRow]
  /\ nextId = 1
  /\ nodeEnv \in envs
  /\ pc = [r \in Reqs |-> "idle"]
  /\ sent = [r \in Reqs |-> NoRequest]
  /\ req = [r \in Reqs |-> NoReq]
  /\ found = [r \in Reqs |-> Null]
  /\ resp = [r \in Reqs |-> NoResponse]
  /\ thrown = [r \in Reqs |-> <<>>]
  /\ sends = [r \in Reqs |-> 0]

(***************************************************************************)
(* Inputs                                                                  *)
(***************************************************************************)
sAna == <<"A","n","a">>
sPaddedAna == <<" ","A","n","a"," ">>
sPaddedA == <<" ","A"," ">>
sJo == <<"J","o">>
sLong == [i \in 1..(MaxNome + 1) |-> "x"]
eAB == <<"a","@","b",".","c","o">>
eABUpper == <<"A","@","B",".","C","O">>
eABPadded == <<" ","a","@","b",".","c","o"," ">>
eCD == <<"c","@","d",".","c","o">>
eInvalido == <<"i","n","v","a","l","i","d","o">>
sSecret == <<"s","e","c","r","e","t">>
sSenha2 == <<"s","e","n","h","a","1","2">>
s123 == <<"1","2","3">>
sADMIN == <<"A","D","M","I","N">>
sHACKER == <<"H","A","C","K","E","R">>
sUrl == <<"h","t","t","p",":","/","/","x">>
sNotUrl == <<"n","a","o">>

\* a valid create body and the bodies that differ from it in one field
BaseBody == Body(Str(sAna), Str(eAB), Str(sSecret), Undefined, Undefined)
With(body, field, value) == [body EXCEPT ![field] = value]

CreateBodies ==
  {BaseBody, With(BaseBody, "email", Str(eCD))}
    \cup {With(BaseBody, "nome", v) :
            v \in {Str(sPaddedAna), Str(sPaddedA), Str(sJo), Str(sLong), Undefined}}
    \cup {With(BaseBody, "email", v) :
            v \in {Str(eABUpper), Str(eABPadded), Str(eInvalido)}}
    \cup {With(BaseBody, "senha", v) : v \in {Str(sSenha2), Str(s123)}}
    \cup {With(BaseBody, "papel", v) : v \in {Str(sADMIN), Str(sHACKER)}}
    \cup {With(BaseBody, "foto", v) : v \in {Null, Str(<<>>), Str(sUrl), Str(sNotUrl)}}
    \cup {Body(Str(sPaddedAna), Str(eABUpper), Str(sSecret), Str(sADMIN), Str(sUrl)),
          Body(Str(sJo), Str(eInvalido), Str(s123), Undefined, Undefined)}

\* update bodies: nothing, one field, or nome together with foto
EmptyBody == Body(Undefined, Undefined, Undefined, Undefined, Undefined)

UpdateBodies ==
  {EmptyBody}
    \cup {With(EmptyBody, "nome", v) : v \in {Str(sAna), Str(sPaddedA), Str(sJo)}}
    \cup {With(EmptyBody, "email", v) :
            v \in {Str(eAB), Str(eCD), Str(eABUpper), Str(eABPadded), Str(eInvalido)}}
    \cup {With(EmptyBody, "senha", v) : v \in {Str(sSenha2), Str(s123)}}
    \cup {With(EmptyBody, "papel", v) : v \in {Str(sADMIN), Str(sHACKER)}}
    \cup {With(EmptyBody, "foto", v) : v \in {Null, Str(<<>>), Str(sUrl), Str(sNotUrl)}}
    \cup {Body(Str(sAna), Undefined, Undefined, Undefined, v) : v \in {Null, Str(sUrl)}}

\* path parameters: ids of rows, an id no row ever has, and malformed ids
RowIdParams == {Str(<<"1">>), Str(<<"2">>)}
OtherIdParams ==
  {Str(<<"0","2">>), Str(<<"9">>), Str(<<"0">>), Str(<<"-","1">>), Str(<<"a","b","c">>)}
IdParams == RowIdParams \cup OtherIdParams

UpdateInputs ==
  (RowIdParams \X UpdateBodies)
    \cup (OtherIdParams \X {With(EmptyBody, "nome", Str(sAna)), EmptyBody})

\* the request slot of the sequential specification
First == CHOOSE r \in Reqs : \A q \in Reqs : r <= q

\* the sequential specification: on a server outside development mode, one
\* request at a time, any number of them
Init == InitIn({"production"})

Next ==
  \E r \in {First} :
    \/ \E body \in CreateBodies : create(r, body)
    \/ getAll(r)
    \/ \E id \in IdParams : getById(r, id)
    \/ \E in \in UpdateInputs : update(r, in[1], in[2])
    \/ \E id \in IdParams : remove(r, id)
    \/ Service(r)
    \/ Close(r)

Spec == Init /\ [][Next]_vars

(***************************************************************************)
(* The concurrent specification: a server started on a database that       *)
(* already holds users, and NReq requests whose database calls interleave  *)
(* in every order                                                          *)
(***************************************************************************)
StoredUser(id, email) ==
  [id |-> id, nome |-> Str(sAna), email |-> Str(email), senha |-> Str(sSecret),
   papel |-> PROFESSOR, foto |-> Null, createdAt |-> id]

ConcEmails == {eAB, eCD}

\* the tables earlier requests can have left: rows under their own ids, no
\* email twice
InitialDbs ==
  {d \in [Ids -> {NoRow} \cup {StoredUser(i, e) : i \in Ids, e \in ConcEmails}] :
     /\ \A i \in Ids : d[i] # NoRow => d[i].id = i
     /\ \A i, j \in Ids : (d[i] # NoRow /\ d[j] # NoRow /\ i # j) => d[i].email # d[j].email}

InitConc ==
  /\ db \in InitialDbs
  /\ nextId \in {n \in 1..(MaxId + 1) : \A i \in Ids : db[i] # NoRow => i < n}
  /\ nodeEnv \in NodeEnvs
  /\ pc = [r \in Reqs |-> "idle"]
  /\ sent = [r \in Reqs |-> NoRequest]
  /\ req = [r \in Reqs |-> NoReq]
  /\ found = [r \in Reqs |-> Null]
  /\ resp = [r \in Reqs |-> NoResponse]
  /\ thrown = [r \in Reqs |-> <<>>]
  /\ sends = [r \in Reqs |-> 0]

ConcCreateBodies == {With(BaseBody, "email", Str(e)) : e \in ConcEmails}
ConcUpdateBodies == {With(EmptyBody, "email", Str(e)) : e \in ConcEmails}
ConcIdParams == {Str(<<"1">>), Str(<<"2">>)}

NextConc ==
  \E r \in Reqs :
    \/ \E body \in ConcCreateBodies : create(r, body)
    \/ getAll(r)
    \/ \E id \in ConcIdParams : getById(r, id)
    \/ \E id \in ConcIdParams, body \in ConcUpdateBodies : update(r, id, body)
    \/ \E id \in ConcIdParams : remove(r, id)
    \/ Service(r)

SpecConc == InitConc /\ [][NextConc]_vars

(***************************************************************************)
(* The create race: on an empty table, NReq concurrent POST /users         *)
(***************************************************************************)
InitRace == InitIn(NodeEnvs)

NextRace ==
  \E r \in Reqs :
    \/ \E body \in ConcCreateBodies : create(r, body)
    \/ CreateUserEmailExists(r)
    \/ CreateUserInsert(r)

SpecRace == InitRace /\ [][NextRace]_vars

(***************************************************************************)
(* The error middleware on its own: any handler of a request hands any     *)
(* error to next(error)                                                    *)
(***************************************************************************)
SomeMeta == [target |-> <<"email">>]

\* errors of the taxonomy, built as the routes and the validate middleware
\* build them, and the two classes no route uses
TaxonomyErrors ==
  {validateError(createUserSchema(With(BaseBody, "senha", Str(s123)))),
   validateError(createUserSchema(Body(Str(sJo), Str(eInvalido), Str(s123), Undefined, Undefined))),
   InvalidIdError,
   UserNotFound(1),
   ConflictError(<<"Email ja cadastrado no sistema">>, "email"),
   UnauthorizedError(<<"Autenticacao necessaria">>),
   ForbiddenError(<<"Acesso negado">>),
   AppError(<<"Pagamento">>, 402, "PAYMENT_REQUIRED", <<>>)}

\* errors of the Prisma client: the three codes of the table and another one
DriverErrors ==
  {PrismaError(code, SomeMeta) : code \in {P2002, P2025, P2003, <<"P","1","0","0","1">>}}

\* every other error: thrown by Zod, by JavaScript, by Node (a string code)
\* or by a library whose errors carry a numeric code
OtherErrors ==
  {ZodError(createUserSchema(With(BaseBody, "nome", Str(sJo))).issues)}
    \cup {JsError("Error", "Error", code, <<"boom">>, Undefined, <<>>) :
            code \in {Undefined, Null, Str(<<>>), Str(<<"E","N","O","E","N","T">>),
                      Num(0), Num(11000)}}

ErrorValues == TaxonomyErrors \cup DriverErrors \cup OtherErrors

\* a handler of the request hands the error to next
Raise(r, error) ==
  /\ Receive(r, "ANY", <<"/users">>, Undefined, Undefined)
  /\ req' = [req EXCEPT ![r] = NoReq]
  /\ Fail(r, error, <<"/users">>)
  /\ UNCHANGED <<db, nextId, nodeEnv, found>>

InitHandler == InitIn(NodeEnvs)

NextHandler == \E r \in Reqs : \E error \in ErrorValues : Raise(r, error)

SpecHandler == InitHandler /\ [][NextHandler]_vars

(***************************************************************************)
(* Every way a request can fail: from a table that holds one user, NReq    *)
(* interleaved requests, valid and invalid, on a database whose calls can  *)
(* also be rejected for reasons outside the program                        *)
(***************************************************************************)
P2024 == <<"P","2","0","2","4">>

\* an awaited Prisma call is rejected (no connection from the pool in time):
\* nothing is read or written, and the controller's catch hands the driver's
\* error to next
DbFailure(r) ==
  /\ pc[r] \in {"list", "find", "check", "write"}
  /\ Fail(r, PrismaError(P2024, [cause |-> <<"Timed out fetching a new connection">>]),
          sent[r].path)
  /\ UNCHANGED <<db, nextId, nodeEnv, sent, req, found>>

InitFaults ==
  /\ db = [i \in Ids |-> IF i = 1 THEN StoredUser(1, eAB) ELSE NoRow]
  /\ nextId = 2
  /\ nodeEnv \in NodeEnvs
  /\ pc = [r \in Reqs |-> "idle"]
  /\ sent = [r \in Reqs |-> NoRequest]
  /\ req = [r \in Reqs |-> NoReq]
  /\ found = [r \in Reqs |-> Null]
  /\ resp = [r \in Reqs |-> NoResponse]
  /\ thrown = [r \in Reqs |-> <<>>]
  /\ sends = [r \in Reqs |-> 0]

FaultCreateBodies == ConcCreateBodies \cup {With(BaseBody, "senha", Str(s123))}
FaultUpdateBodies == {With(EmptyBody, "email", Str(eCD)), EmptyBody}
FaultIdParams == {Str(<<"1">>), Str(<<"2">>), Str(<<"a","b","c">>)}

NextFaults ==
  \E r \in Reqs :
    \/ \E body \in FaultCreateBodies : create(r, body)
    \/ getAll(r)
    \/ \E id \in FaultIdParams : getById(r, id)
    \/ \E id \in FaultIdParams, body \in FaultUpdateBodies : update(r, id, body)
    \/ \E id \in FaultIdParams : remove(r, id)
    \/ Service(r)
    \/ DbFailure(r)

SpecFaults == InitFaults /\ [][NextFaults]_vars

(***************************************************************************)
(* Properties                                                              *)
(***************************************************************************)
Done(r, route) == pc[r] = "done" /\ sent[r].route = route
Status(r) == resp[r].status
ErrorCode(r) == resp[r].body.error.code

\* the id a path parameter names, when it is digits only
WellFormedId(p) == MatchesDigits(p.v) /\ DigitsToNumber(p.v) > 0
IdOf(p) == DigitsToNumber(p.v)

\* C1: of the concurrent Creates that carry the same email and have been
\* answered, exactly one got 201 and every other one 409 CONFLICT, however the
\* pre-checks and inserts interleave.
C1_OneCreateWins ==
  \A e \in ConcEmails :
    LET D == {r \in Reqs : Done(r, "POST") /\ req[r].body.email = Str(e)}
    IN D # {} =>
         \E w \in D :
           /\ Status(w) = 201
           /\ \A r \in D \ {w} : Status(r) = 409 /\ ErrorCode(r) = "CONFLICT"

\* two Creates of one email that both passed the pre-check: one inserted, the
\* other was refused by the unique index and answered through the driver table
C1_Witness ==
  \E r, w \in Reqs :
    /\ Done(r, "POST") /\ Done(w, "POST") /\ req[r].body.email = req[w].body.email
    /\ Status(w) = 201
    /\ Status(r) = 409
    /\ resp[r].body.error.message =
         <<"Registro duplicado. Este valor ja existe no sistema.">>

\* C2: no two stored users have the same email, in every state the
\* interleaved Creates, Updates and Deletes reach.
C2_UniqueEmails ==
  \A i, j \in Users : i # j => db[i].email # db[j].email

\* an Update that passed the email pre-check and was then refused by the
\* unique index, two users stored
C2_Witness ==
  \E r \in Reqs :
    /\ Done(r, "PUT") /\ Status(r) = 409
    /\ resp[r].body.error.message =
         <<"Registro duplicado. Este valor ja existe no sistema.">>
    /\ Cardinality(Users) = 2

\* C3: an Update that succeeds leaves every stored field the request body did
\* not supply as it was before the write (in particular the photo, when only
\* the name is supplied).
C3_UnsuppliedFieldsKept ==
  [][\A r \in Reqs :
       (At(r, "PUT", "write") /\ pc'[r] = "done" /\ resp'[r].status = 200)
         => \A k \in SeqRange(Fields) :
              sent[r].body[k] = Undefined
                => db'[req[r].params.id][k] = db[req[r].params.id][k]]_vars

\* C4: no successful response carries a password: the user (every user, for
\* List) serialized in it has no senha field.
C4_NoPasswordInResponses ==
  \A r \in Reqs :
    (pc[r] = "done" /\ resp[r].body.success)
      => IF sent[r].route = "LIST"
           THEN \A i \in 1..Len(resp[r].body.data) :
                  "senha" \notin DOMAIN resp[r].body.data[i]
           ELSE "senha" \notin DOMAIN resp[r].body.data

\* a List answered with a user whose stored row holds a password
C4_Witness ==
  \E r \in Reqs :
    /\ Done(r, "LIST") /\ Status(r) = 200 /\ Len(resp[r].body.data) >= 1
    /\ \E i \in Users : db[i].senha = Str(sSenha2)

\* C5: on GET/PUT/DELETE /users/:id a path id that is not digits only or not
\* positive is answered 400 VALIDATION_ERROR as soon as it is received, and an
\* id that matches no row when the service looks it up is answered 404
\* NOT_FOUND; neither changes the table.
C5_MalformedIs400MissingIs404 ==
  [][\A r \in Reqs :
       /\ (pc[r] = "idle" /\ sent'[r].route \in {"GET", "PUT", "DELETE"}
             /\ ~WellFormedId(sent'[r].params.id))
            => /\ pc'[r] = "done"
               /\ resp'[r].status = 400
               /\ resp'[r].body.error.code = "VALIDATION_ERROR"
               /\ db' = db
       /\ (pc[r] = "find" /\ pc'[r] # "find" /\ req[r].params.id \notin Users)
            => /\ pc'[r] = "done"
               /\ resp'[r].status = 404
               /\ resp'[r].body.error.code = "NOT_FOUND"
               /\ db' = db]_vars

\* an Update with a valid body on an id no row has, answered 404, while the
\* table holds a user
C5_Witness ==
  \E r \in Reqs :
    /\ Done(r, "PUT") /\ sent[r].params.id = Str(<<"9">>) /\ Status(r) = 404
    /\ Users # {}

\* C6: an Update on an existing user whose body holds photo explicitly (a
\* valid URL or null), alone or with other fields, succeeds and the stored
\* photo is then the supplied value.
ExplicitPhoto(x) == x = Null \/ (IsStr(x) /\ IsUrl(x.v))

C6_ExplicitPhotoPatched ==
  \A r \in Reqs :
    (/\ Done(r, "PUT")
     /\ ExplicitPhoto(sent[r].body.foto)
     /\ WellFormedId(sent[r].params.id)
     /\ IdOf(sent[r].params.id) \in Users)
      => /\ Status(r) = 200
         /\ db[IdOf(sent[r].params.id)].foto = sent[r].body.foto

\* C7: a Create whose photo is the empty string, the rest of the body valid
\* and the email free, is answered 201 with photo null.
C7_EmptyPhotoCreates ==
  \A r \in Reqs :
    (/\ Done(r, "POST")
     /\ sent[r].body.foto = Str(<<>>)
     /\ createUserSchema(With(sent[r].body, "foto", Undefined)).issues = <<>>
     /\ Status(r) # 409)
      => /\ Status(r) = 201
         /\ resp[r].body.data.foto = Null

\* C8: every stored name is trimmed and 3 to 100 characters long.
C8_StoredNameLength ==
  \A i \in Users :
    /\ Trim(db[i].nome.v) = db[i].nome.v
    /\ Len(db[i].nome.v) >= MinNome
    /\ Len(db[i].nome.v) <= MaxNome

\* C9: a Create whose email equals a valid email up to letter case and
\* surrounding white space (the rest of the body valid) is answered 201 when no
\* user holds that email and 409 CONFLICT when one does; afterwards exactly one
\* user holds it.
NormalizedEmail(s) == ToLowerCase(Trim(s))

C9_SameEmailModuloCaseAndSpace ==
  \A r \in Reqs :
    (/\ Done(r, "POST")
     /\ IsStr(sent[r].body.email)
     /\ createUserSchema(With(sent[r].body, "email",
                              Str(NormalizedEmail(sent[r].body.email.v)))).issues = <<>>)
      => /\ Status(r) = 201 \/ (Status(r) = 409 /\ ErrorCode(r) = "CONFLICT")
         /\ Cardinality({i \in Users :
                           db[i].email = Str(NormalizedEmail(sent[r].body.email.v))}) = 1

\* C10: after a Create that succeeds, the email answered and stored is the
\* input email trimmed and lowercased, the name answered and stored is the
\* input name trimmed, and normalizing the stored values again changes nothing.
C10_CreateNormalizes ==
  \A r \in Reqs :
    (Done(r, "POST") /\ Status(r) = 201)
      => LET data == resp[r].body.data
             row == db[data.id]
         IN /\ data.email = Str(ToLowerCase(Trim(sent[r].body.email.v)))
            /\ data.nome = Str(Trim(sent[r].body.nome.v))
            /\ row.email = data.email
            /\ row.nome = data.nome
            /\ ToLowerCase(Trim(row.email.v)) = row.email.v
            /\ Trim(row.nome.v) = row.nome.v

\* a Create of a padded name and an upper-case email, answered 201
C10_Witness ==
  \E r \in Reqs :
    /\ Done(r, "POST") /\ Status(r) = 201
    /\ sent[r].body.nome = Str(sPaddedAna)
    /\ sent[r].body.email = Str(eABUpper)

\* the fields of a create body that break a rule of createUserSchema, each
\* judged on its own in an otherwise valid body
ViolatedFields(body) ==
  {k \in SeqRange(Fields) : createUserSchema(With(BaseBody, k, body[k])).issues # <<>>}

\* C11: a Create whose body breaks rules is answered at once, without the
\* service running, by one 400 VALIDATION_ERROR whose details hold one record
\* per violated rule (all of them, not only the first); the table is untouched.
C11_AllViolationsReported ==
  [][\A r \in Reqs :
       (pc[r] = "idle" /\ sent'[r].route = "POST" /\ ViolatedFields(sent'[r].body) # {})
         => /\ pc'[r] = "done"
            /\ resp'[r].status = 400
            /\ resp'[r].body.error.code = "VALIDATION_ERROR"
            /\ Len(resp'[r].body.error.details) = Cardinality(ViolatedFields(sent'[r].body))
            /\ {resp'[r].body.error.details[i].field :
                   i \in 1..Len(resp'[r].body.error.details)} = ViolatedFields(sent'[r].body)
            /\ db' = db /\ nextId' = nextId]_vars

\* the Create with a too-short name, a malformed email and a too-short
\* password, answered 400 with three details
C11_Witness ==
  \E r \in Reqs :
    /\ Done(r, "POST") /\ Status(r) = 400
    /\ sent[r].body = Body(Str(sJo), Str(eInvalido), Str(s123), Undefined, Undefined)
    /\ Len(resp[r].body.error.details) = 3

\* an update body that gives no field a value
NoFieldGiven(body) ==
  \A k \in SeqRange(Fields) : body[k] = Undefined \/ (k = "foto" /\ body[k] = Null)

AtLeastOneField == "Pelo menos um campo deve ser fornecido para atualizacao"

\* the request r is answered, in this step, 400 VALIDATION_ERROR with a detail
\* that asks for at least one field, and the table stays as it is
RejectedForNoField(r) ==
  /\ pc'[r] = "done"
  /\ resp'[r].status = 400
  /\ resp'[r].body.error.code = "VALIDATION_ERROR"
  /\ \E i \in 1..Len(resp'[r].body.error.details) :
        resp'[r].body.error.details[i].message = AtLeastOneField
  /\ db' = db

\* C12 as stated: an Update whose body gives no field a value, on any id, is
\* answered 400 VALIDATION_ERROR with a detail asking for at least one field,
\* and the table is unchanged.
C12_EmptyUpdateRejected ==
  [][\A r \in Reqs :
       (pc[r] = "idle" /\ sent'[r].route = "PUT" /\ NoFieldGiven(sent'[r].body))
         => RejectedForNoField(r)]_vars

\* C12 amended: the same for every id that is digits only and positive,
\* whether a user has it or not (a malformed id is answered by the id
\* validation, which runs first, and its details speak of the id only).
C12_EmptyUpdateRejectedOnWellFormedId ==
  [][\A r \in Reqs :
       (/\ pc[r] = "idle" /\ sent'[r].route = "PUT" /\ NoFieldGiven(sent'[r].body)
        /\ WellFormedId(sent'[r].params.id))
         => RejectedForNoField(r)]_vars

\* an Update with the empty object on the id of a stored user, answered 400
C12_Witness ==
  \E r \in Reqs :
    /\ Done(r, "PUT") /\ sent[r].body = EmptyBody /\ Status(r) = 400
    /\ WellFormedId(sent[r].params.id) /\ IdOf(sent[r].params.id) \in Users
    /\ resp[r].body.error.details[1].message = AtLeastOneField

\* the canonical error envelope
IsEnvelope(x) ==
  /\ DOMAIN x = {"status", "body"}
  /\ {"success", "error", "timestamp", "path"} \subseteq DOMAIN x.body
  /\ x.body.success = FALSE
  /\ {"code", "message"} \subseteq DOMAIN x.body.error

IsTaxonomy(e) == e.kind = "AppError"
HasDriverCode(e) == IsStr(e.code) /\ StartsWith(e.code.v, <<"P">>)

\* C13: whatever error a handler hands to next, the request is answered with
\* the canonical envelope, classified by the first match of: taxonomy error
\* (its own status and code), error with a driver code (a code of the driver
\* table), Zod error (400 VALIDATION_ERROR), anything else 500 INTERNAL_ERROR.
C13_AnyErrorGetsEnvelope ==
  \A r \in Reqs :
    (pc[r] = "done" /\ thrown[r] # <<>>)
      => LET e == thrown[r][1]
         IN /\ IsEnvelope(resp[r])
            /\ IF IsTaxonomy(e)
                  THEN Status(r) = e.statusCode /\ ErrorCode(r) = e.code
                ELSE IF HasDriverCode(e)
                  THEN ErrorCode(r) \in {"CONFLICT", "NOT_FOUND", "INVALID_REFERENCE",
                                         "DATABASE_ERROR"}
                ELSE IF e.kind = "ZodError"
                  THEN Status(r) = 400 /\ ErrorCode(r) = "VALIDATION_ERROR"
                ELSE Status(r) = 500 /\ ErrorCode(r) = "INTERNAL_ERROR"

\* the fixed texts of the branches for errors outside the taxonomy
GenericMessages ==
  {<<"Registro duplicado. Este valor ja existe no sistema.">>,
   <<"Registro nao encontrado.">>,
   <<"Referencia invalida a outro registro.">>,
   <<"Erro no banco de dados.">>,
   <<"Dados de entrada invalidos">>,
   <<"Erro interno do servidor">>}

C15_DetailsIffSupplied ==
  \A r \in Reqs :
    (pc[r] = "done" /\ thrown[r] # <<>> /\ IsTaxonomy(thrown[r][1]))
      => /\ "details" \in DOMAIN resp[r].body.error <=> thrown[r][1].details # <<>>
         /\ "details" \in DOMAIN resp[r].body.error
              => resp[r].body.error.details = thrown[r][1].details

\* C15 amended: the envelope of a taxonomy error always has a details member,
\* equal to the details of the error: the list it was created with, or the
\* empty list when it was created with none; the envelope of an error that is
\* neither of the taxonomy, nor a driver error, nor a Zod error has none.
C15_TaxonomyDetailsAlwaysPresent ==
  \A r \in Reqs :
    (pc[r] = "done" /\ thrown[r] # <<>> /\ "body" \in DOMAIN resp[r])
      => LET e == thrown[r][1]
             err == resp[r].body.error
         IN IF IsTaxonomy(e)
              THEN "details" \in DOMAIN err /\ err.details = e.details
              ELSE (~HasDriverCode(e) /\ e.kind # "ZodError") => "details" \notin DOMAIN err

\* an Unauthorized error, created with no details, answered with the empty
\* list, and a not-found error answered with its resource name
C15_Witness ==
  \E r, q \in Reqs :
    /\ pc[r] = "done" /\ thrown[r] = <<UnauthorizedError(<<"Autenticacao necessaria">>)>>
    /\ resp[r].body.error.details = <<>>
    /\ pc[q] = "done" /\ thrown[q] = <<UserNotFound(1)>>
    /\ resp[q].body.error.details = <<[resource |-> "User"]>>

\* an id the database handed out whose row is gone
Deleted(i) == i < nextId /\ db[i] = NoRow

\* C16: the Delete of an existing user answers 200 with the user's id, name
\* and email as stored just before, and removes that row and no other; the row
\* of a deleted id never comes back, and every GetById, Update or Delete that
\* looks such an id up is answered 404 NOT_FOUND.
C16_DeleteIsPermanent ==
  [][/\ \A r \in Reqs :
          /\ (At(r, "DELETE", "write") /\ pc'[r] = "done")
               => /\ req[r].params.id \in Users
                  /\ resp'[r].status = 200
                  /\ DOMAIN resp'[r].body.data = {"id", "nome", "email"}
                  /\ resp'[r].body.data.id = req[r].params.id
                  /\ resp'[r].body.data.nome = db[req[r].params.id].nome
                  /\ resp'[r].body.data.email = db[req[r].params.id].email
                  /\ db'[req[r].params.id] = NoRow
                  /\ \A j \in Ids \ {req[r].params.id} : db'[j] = db[j]
          /\ (/\ pc[r] = "find" /\ pc'[r] # "find"
              /\ req[r].params.id \in Ids /\ Deleted(req[r].params.id))
               => /\ pc'[r] = "done"
                  /\ resp'[r].status = 404
                  /\ resp'[r].body.error.code = "NOT_FOUND"
     /\ \A i \in Ids : Deleted(i) => db'[i] = NoRow]_vars

\* after the Delete of user 1, a Delete of the same id answered 404 while
\* another user is still stored
C16_Witness ==
  \E r \in Reqs :
    /\ Done(r, "DELETE") /\ Status(r) = 404
    /\ WellFormedId(sent[r].params.id) /\ Deleted(IdOf(sent[r].params.id))
    /\ Users # {}

\* C17: a request is answered at most once and has been answered exactly when
\* it is over; at most one error was handed to next for it; the answer is the
\* error envelope exactly when an error was handed to next and the success
\* envelope otherwise; and a request that is still on its way can always take
\* its next step, so none is left without an answer.
C17_ExactlyOneResponse ==
  \A r \in Reqs :
    /\ sends[r] <= 1
    /\ Len(thrown[r]) <= 1
    /\ pc[r] = "done" <=> sends[r] = 1
    /\ thrown[r] # <<>> => pc[r] = "done"
    /\ pc[r] = "done" => (resp[r].body.success <=> thrown[r] = <<>>)
    /\ pc[r] \notin {"idle", "done"} => ENABLED (Service(r) \/ DbFailure(r))

\* one request answered with a success envelope, another, whose insert the
\* unique index refused, with an error envelope
C17_Witness ==
  \E r, q \in Reqs :
    /\ pc[r] = "done" /\ resp[r].body.success /\ thrown[r] = <<>>
    /\ pc[q] = "done" /\ ~resp[q].body.success
    /\ thrown[q] = <<PrismaError(P2002, [target |-> <<"email">>])>>

\* C19: the step that answers a request with an error (400, 404, 409 or 500)
\* leaves the table and the id counter as they are, and every change of the
\* table is made by the step that answers its request with success: a request
\* that ends in an error has written nothing.
C19_FailedRequestsWriteNothing ==
  [][/\ \A r \in Reqs :
          (pc[r] # "done" /\ pc'[r] = "done" /\ resp'[r].status \in {400, 404, 409, 500})
            => db' = db /\ nextId' = nextId
     /\ db' # db
          => \E r \in Reqs :
               /\ pc[r] = "write" /\ pc'[r] = "done"
               /\ resp'[r].status \in {200, 201}]_vars

\* an Update refused by the unique index after its pre-check passed: the
\* Create that took the email is stored, the user of the Update is as before
C19_Witness ==
  \E r \in Reqs :
    /\ Done(r, "PUT") /\ Status(r) = 409
    /\ thrown[r] = <<PrismaError(P2002, [target |-> <<"email">>])>>
    /\ db[1] = StoredUser(1, eAB)
    /\ Cardinality(Users) = 2

\* C18: an Update of an existing user checks uniqueness exactly when its
\* (normalized) email is given and differs from the stored one; the check
\* answers 409 CONFLICT, with the table unchanged, when another user holds
\* that email; an Update whose email equals the user's own is written and
\* answered 200.
C18_UpdateEmailConflict ==
  [][\A r \in Reqs :
       /\ (At(r, "PUT", "find") /\ pc'[r] # "find" /\ req[r].params.id \in Users)
            => /\ pc'[r] \in {"check", "write"}
               /\ pc'[r] = "check"
                    <=> /\ Truthy(req[r].body.email)
                        /\ req[r].body.email # db[req[r].params.id].email
       /\ (At(r, "PUT", "check") /\ pc'[r] # "check")
            => IF \E i \in Users \ {req[r].params.id} : db[i].email = req[r].body.email
                 THEN /\ pc'[r] = "done"
                      /\ resp'[r].status = 409
                      /\ resp'[r].body.error.code = "CONFLICT"
                      /\ db' = db
                 ELSE pc'[r] = "write"
       /\ (/\ At(r, "PUT", "write") /\ pc'[r] = "done"
           /\ req[r].params.id \in Users
           /\ req[r].body.email = db[req[r].params.id].email)
            => resp'[r].status = 200]_vars

\* an Update that asked for the email of the other stored user, answered 409
C18_Witness ==
  \E r \in Reqs :
    /\ Done(r, "PUT") /\ Status(r) = 409
    /\ resp[r].body.error.message = <<"Email ja esta em uso por outro usuario">>
    /\ Cardinality(Users) = 2
    /\ \E i \in Users : i # req[r].params.id /\ db[i].email = req[r].body.email

\* an Update that sent the user's own email in upper case, answered 200
C18_OwnEmailWitness ==
  \E r \in Reqs :
    /\ Done(r, "PUT") /\ Status(r) = 200
    /\ sent[r].body.email = Str(eABUpper)
    /\ db[req[r].params.id].email = Str(eAB)

\* C20: a Delete or Update that passed its existence check and comes to write
\* after a concurrent Delete removed the row is answered 404 NOT_FOUND through
\* the driver table (code P2025), not 500 and not a success, and the row stays
\* absent; a Delete that finds the row still there is answered 200, removes
\* it, and is the only Delete of that id answered 200.
C20_DeleteRaceLoserGets404 ==
  [][\A r \in Reqs :
       /\ (/\ pc[r] = "write" /\ sent[r].route \in {"DELETE", "PUT"} /\ pc'[r] = "done"
           /\ req[r].params.id \notin Users)
            => /\ resp'[r].status = 404
               /\ resp'[r].body.error.code = "NOT_FOUND"
               /\ Len(thrown'[r]) = 1 /\ thrown'[r][1].code = Str(P2025)
               /\ db' = db
       /\ (At(r, "DELETE", "write") /\ pc'[r] = "done" /\ req[r].params.id \in Users)
            => /\ resp'[r].status = 200
               /\ db'[req[r].params.id] = NoRow
               /\ \A q \in Reqs \ {r} :
                    ~(/\ Done(q, "DELETE") /\ req[q].params.id = req[r].params.id
                      /\ Status(q) = 200)]_vars

\* two Deletes of one id that both passed the existence check: one answered
\* 200, the other 404 with the text of the driver table, the user gone
C20_Witness ==
  \E r, q \in Reqs :
    /\ Done(r, "DELETE") /\ Done(q, "DELETE") /\ req[r].params.id = req[q].params.id
    /\ Status(r) = 200
    /\ Status(q) = 404
    /\ resp[q].body.error.message = <<"Registro nao encontrado.">>
    /\ req[r].params.id \notin Users

\* an Update that lost the race against a Delete of its user
C20_UpdateLoserWitness ==
  \E r, q \in Reqs :
    /\ Done(r, "DELETE") /\ Done(q, "PUT") /\ req[r].params.id = req[q].params.id
    /\ Status(r) = 200
    /\ Status(q) = 404
    /\ resp[q].body.error.message = <<"Registro nao encontrado.">>

====
